---- MODULE Spec2Model ----
(***************************************************************************)
(* RBAC_FastAPI: the role-based access control layer of the service.       *)
(*                                                                         *)
(* The state is the persisted state (four tables and their id sequences),  *)
(* the one element-creation transaction that may be in flight, and the     *)
(* event produced by the last step (the HTTP response of a request, or the *)
(* completion of a bootstrap run).  Every handler is an operator from the  *)
(* committed state and the request's inputs to a status, a detail and the  *)
(* next committed state; an action applies one handler to inputs drawn     *)
(* from small sets.                                                        *)
(*                                                                         *)
(* Reading of the sources.  app/models/users.py (User, Role) is not among  *)
(* the sources: the fields of the two rows are those the handlers read and *)
(* write.  Password hashing is the external bcrypt utility; the handlers   *)
(* that write "await get_password_hash(..)" (init_db.py:93, admin.py:73)   *)
(* and the one that calls it plainly (auth.py:70) are all modelled as      *)
(* obtaining the hash.  init_db runs at every start of the application     *)
(* (main.py:41-42) and in the tests' database fixture; the tests' client   *)
(* does not run the lifespan, so requests can reach a database that has    *)
(* not been provisioned: the initial state is the schema with no rows and  *)
(* init_db is a step that may be taken at any time.                        *)
(***************************************************************************)
EXTENDS Integers, Sequences, FiniteSets, TLC

VARIABLES
    db,      \* committed rows: roles, users, elements, rules, and seq (the id sequences)
    tx,      \* the create_business_element request in flight (its session), or idle
    resp,    \* the event of the last step: op, status, detail, token, arg
    writes,  \* number of state-changing requests served so far
    sessions \* the database sessions open at once, when runs and requests overlap

vars == <<db, tx, resp, writes, sessions>>

(***************************************************************************)
(* Bounds of the model.                                                    *)
(***************************************************************************)
\* State-changing requests served in a run: registrations, profile and
\* administrative changes, permission edits and element creations.  Bootstrap
\* runs, reads and rejected requests are not counted.
MaxWrites == 1

\* The largest user key whose decimal form is written and read back.
MaxKey == 120

(***************************************************************************)
(* Data model.                                                             *)
(***************************************************************************)
\* The seven flag columns of AccessRule.
PermissionNames ==
    { "read_permission", "read_all_permission", "create_permission",
      "update_permission", "update_all_permission",
      "delete_permission", "delete_all_permission" }

\* The fields of the AccessRuleUpdate request schema.
AccessRuleUpdate ==
    { "read_permission", "read_all_permissions", "create_permission",
      "update_permission", "update_all_permissions",
      "delete_permission", "delete_all_permissions" }

\* All mapped columns of an AccessRule row.
AccessRuleColumns == {"id", "role_id", "business_element_id"} \cup PermissionNames

\* AccessRule(role_id=.., business_element_id=.., **permissions): a flag that is
\* not given takes the column default False.
AccessRule(id, role_id, element_id, permissions) ==
    [ c \in AccessRuleColumns |->
        CASE c = "id" -> id
          [] c = "role_id" -> role_id
          [] c = "business_element_id" -> element_id
          [] OTHER -> IF c \in DOMAIN permissions THEN permissions[c] ELSE FALSE ]

None == "None"

NoUser == [id |-> 0]

\* bcrypt: the hash is opaque and verifies exactly the password it was made from.
get_password_hash(password) == <<"bcrypt", password>>

verify_password(plain_password, hashed_password) ==
    hashed_password = <<"bcrypt", plain_password>>

(***************************************************************************)
(* str(user.id) and int(sub): decimal digits.                              *)
(***************************************************************************)
Digits == <<"0", "1", "2", "3", "4", "5", "6", "7", "8", "9">>

RECURSIVE Str(_)
Str(n) == IF n < 10 THEN <<Digits[n + 1]>> ELSE Append(Str(n \div 10), Digits[(n % 10) + 1])

DigitValue(c) == CHOOSE i \in 0..9 : Digits[i + 1] = c

IsDigit(c) == \E i \in 1..10 : Digits[i] = c

RECURSIVE IntOf(_)
IntOf(s) == IF Len(s) = 1 THEN DigitValue(s[1])
            ELSE 10 * IntOf(SubSeq(s, 1, Len(s) - 1)) + DigitValue(s[Len(s)])

\* int(s) raises ValueError on a string that is not a decimal numeral.
IsNumeral(s) == Len(s) > 0 /\ \A i \in 1..Len(s) : IsDigit(s[i])

(***************************************************************************)
(* Bearer tokens.  A token is what jwt.decode makes of it: whether the     *)
(* signature and expiry verify, and its payload (the claims other than     *)
(* "exp").                                                                 *)
(***************************************************************************)
Token(kind, payload) == [kind |-> kind, payload |-> payload]

\* create_access_token(data={"sub": str(user.id)}), still unexpired.
create_access_token(user_id) == Token("valid", [sub |-> Str(user_id)])

\* The three users of the bootstrap, and one more id per counted request.
MaxUserId == 3 + MaxWrites

\* The two elements of the bootstrap, and one more id per counted request.
MaxElementId == 2 + MaxWrites

\* The tokens presented to the service.
Tokens ==
    { create_access_token(i) : i \in 1..MaxUserId }
      \cup { Token("expired", [sub |-> Str(1)]) }

\* Tokens no login has issued: a string that is no JWT, a JWT signed with
\* another key, and JWTs signed with SECRET_KEY and unexpired whose subject is
\* missing, is not a numeral, or is empty.
OtherTokens ==
    { Token("malformed", [garbage |-> TRUE]),
      Token("badsig", [sub |-> Str(1)]),
      Token("valid", [name |-> "x"]),
      Token("valid", [sub |-> <<"a", "b", "c">>]),
      Token("valid", [sub |-> <<>>]) }

AllTokens == Tokens \cup OtherTokens

\* No token: a request without one, or a response that carries none.
NoToken == Token("none", [anonymous |-> TRUE])

\* jwt.decode raises JWTError unless the token is well formed, signed with
\* SECRET_KEY and unexpired.
jwt_decode_ok(token) == token.kind = "valid"

Ok(user) == [status |-> 200, detail |-> "", user |-> user]

HTTPException(status, detail) == [status |-> status, detail |-> detail, user |-> NoUser]

credentials_exception == HTTPException(401, "InvalidToken")

\* result.scalar_one_or_none() of select(User).where(User.id == user_id)
UserById(d, user_id) == {u \in d.users : u.id = user_id}

\* Mutant: the user's is_active is not looked at.
get_current_user_IgnoringActive(d, token) ==
    IF ~jwt_decode_ok(token) \/ "sub" \notin DOMAIN token.payload THEN credentials_exception
    ELSE IF ~IsNumeral(token.payload.sub) THEN HTTPException(500, "ValueError")
    ELSE LET found == UserById(d, IntOf(token.payload.sub)) IN
         IF found = {} THEN credentials_exception ELSE Ok(CHOOSE u \in found : TRUE)

\* Mutant: an inactive user is told so, as login does.
get_current_user_TellingInactive(d, token) ==
    IF ~jwt_decode_ok(token) \/ "sub" \notin DOMAIN token.payload THEN credentials_exception
    ELSE IF ~IsNumeral(token.payload.sub) THEN HTTPException(500, "ValueError")
    ELSE LET found == UserById(d, IntOf(token.payload.sub)) IN
         IF found = {} THEN credentials_exception
         ELSE LET user == CHOOSE u \in found : TRUE IN
              IF ~user.is_active THEN HTTPException(401, "Inactive") ELSE Ok(user)

get_current_user(d, token) ==
    IF ~jwt_decode_ok(token) THEN credentials_exception
    ELSE IF "sub" \notin DOMAIN token.payload THEN credentials_exception
    ELSE IF ~IsNumeral(token.payload.sub) THEN HTTPException(500, "ValueError")
    ELSE LET found == UserById(d, IntOf(token.payload.sub)) IN
         IF found = {} THEN credentials_exception
         ELSE LET user == CHOOSE u \in found : TRUE IN
              IF ~user.is_active THEN credentials_exception ELSE Ok(user)

\* user.role.name
RoleName(d, role_id) ==
    LET found == {r \in d.roles : r.id = role_id} IN
    IF found = {} THEN None ELSE (CHOOSE r \in found : TRUE).name

get_admin_user(d, token) ==
    LET current == get_current_user(d, token) IN
    IF current.status # 200 THEN current
    ELSE IF RoleName(d, current.user.role_id) # "admin"
         THEN HTTPException(403, "NotAdmin")
         ELSE current

\* select(AccessRule).join(BusinessElement).where(AccessRule.role_id == role_id,
\*                                                BusinessElement.name == name)
RulesFor(d, role_id, business_element) ==
    { rule \in d.rules :
        /\ rule.role_id = role_id
        /\ \E e \in d.elements :
              e.id = rule.business_element_id /\ e.name = business_element }

\* Mutant: the "all" flag is read from the column of the "own" flag.
FlagSet_OwnForAll(rule, permission) ==
    IF permission = "read_all_permission" THEN rule["read_permission"] ELSE rule[permission]

\* getattr(rule, permission) followed by "if not permission_value": a flag
\* column holds a boolean; the other mapped columns hold integer keys, which
\* are truthy unless zero.
FlagSet(rule, permission) ==
    IF permission \in PermissionNames THEN rule[permission] ELSE rule[permission] # 0

\* Mutant: a missing rule does not stop a user whose role is admin.
CheckPermission_AdminBypass(d, user, business_element, permission) ==
    LET found == RulesFor(d, user.role_id, business_element) IN
    IF found = {}
    THEN IF RoleName(d, user.role_id) = "admin" THEN Ok(user)
         ELSE HTTPException(403, "RuleNotFound")
    ELSE IF ~FlagSet(CHOOSE r \in found : TRUE, permission)
         THEN HTTPException(403, "PermissionDenied")
         ELSE Ok(user)

\* PermissionChecker(business_element, permission).__call__ on an already
\* resolved user.
CheckPermission(d, user, business_element, permission) ==
    LET found == RulesFor(d, user.role_id, business_element) IN
    IF Cardinality(found) > 1 THEN HTTPException(500, "MultipleResultsFound")
    ELSE IF found = {} THEN HTTPException(403, "RuleNotFound")
    ELSE LET rule == CHOOSE r \in found : TRUE IN
         IF permission \notin DOMAIN rule THEN HTTPException(500, "AttributeError")
         ELSE IF ~FlagSet(rule, permission) THEN HTTPException(403, "PermissionDenied")
         ELSE Ok(user)

\* Mutant: the check is decided by the role the account was provisioned with
\* (the baseline user k has role k), as if the token had carried the role.
PermissionChecker_RoleAtIssue(d, token, business_element, permission) ==
    LET current == get_current_user(d, token) IN
    IF current.status # 200 THEN current
    ELSE LET issued == IF \E r \in d.roles : r.id = current.user.id
                       THEN [current.user EXCEPT !.role_id = current.user.id]
                       ELSE current.user
         IN  CheckPermission(d, issued, business_element, permission)

\* The dependency as FastAPI resolves it: get_current_user, then the check.
PermissionChecker(d, token, business_element, permission) ==
    LET current == get_current_user(d, token) IN
    IF current.status # 200 THEN current
    ELSE CheckPermission(d, current.user, business_element, permission)

(***************************************************************************)
(* Rows and inserts.  Ids come from per-table sequences, which never hand  *)
(* out a number twice.                                                     *)
(***************************************************************************)
NextId(d, table) == d.seq[table] + 1

\* session.add(row) and its INSERT.
Insert(d, table, row) ==
    [d EXCEPT ![table] = @ \cup {row}, !.seq[table] = @ + 1]

\* User(...): is_active is True unless given.
User(id, email, hashed_password, name, role_id, is_active) ==
    [ id |-> id, email |-> email, hashed_password |-> hashed_password,
      name |-> name, role_id |-> role_id, is_active |-> is_active ]

\* session.add(user) of a loaded row whose attributes were changed.
UpdateUser(d, user, changed) ==
    [d EXCEPT !.users = (@ \ {user}) \cup {changed}]

(***************************************************************************)
(* Bootstrap: init_db.                                                     *)
(***************************************************************************)
\* _get_or_create(session, model, name=name), for Role and BusinessElement.
get_or_create(d, table, name) ==
    LET found == {x \in d[table] : x.name = name} IN
    IF found # {} THEN [db |-> d, instance |-> CHOOSE x \in found : TRUE]
    ELSE LET instance == [id |-> NextId(d, table), name |-> name] IN
         [db |-> Insert(d, table, instance), instance |-> instance]

\* Mutant: the rule is added without looking for an existing one.
create_access_rule_Always(d, role_id, element_id, permissions) ==
    Insert(d, "rules", AccessRule(NextId(d, "rules"), role_id, element_id, permissions))

\* Mutant: an existing rule is reset to the defaults.
create_access_rule_Upsert(d, role_id, element_id, permissions) ==
    LET found == { rule \in d.rules :
                     rule.role_id = role_id /\ rule.business_element_id = element_id }
    IN  IF found = {}
        THEN Insert(d, "rules", AccessRule(NextId(d, "rules"), role_id, element_id, permissions))
        ELSE [d EXCEPT !.rules = (@ \ found)
                 \cup { AccessRule(rule.id, role_id, element_id, permissions) : rule \in found }]

\* Mutant: the lookup also matches the flags, so an edited rule is not found.
create_access_rule_MatchingFlags(d, role_id, element_id, permissions) ==
    IF \E rule \in d.rules :
          /\ rule.role_id = role_id
          /\ rule.business_element_id = element_id
          /\ \A p \in DOMAIN permissions : rule[p] = permissions[p]
    THEN d
    ELSE Insert(d, "rules", AccessRule(NextId(d, "rules"), role_id, element_id, permissions))

create_access_rule_if_not_exists(d, role_id, element_id, permissions) ==
    IF \E rule \in d.rules :
          rule.role_id = role_id /\ rule.business_element_id = element_id
    THEN d
    ELSE Insert(d, "rules", AccessRule(NextId(d, "rules"), role_id, element_id, permissions))

\* f"{role_name}@{role_name}.com" and role_name.title()
BaselineEmail == [admin |-> "admin@admin.com", manager |-> "manager@manager.com",
                  user |-> "user@user.com"]

BaselineName == [admin |-> "Admin", manager |-> "Manager", user |-> "User"]

\* One round of the "for role_name in [...]" loop that fills the users.
EnsureBaselineUser(d, role_name, roles_map) ==
    IF \E u \in d.users : u.email = BaselineEmail[role_name] THEN d
    ELSE Insert(d, "users",
                User(NextId(d, "users"), BaselineEmail[role_name],
                     get_password_hash(role_name), BaselineName[role_name],
                     roles_map[role_name].id, TRUE))

permissions_map ==
    [ admin |->
        [ read_all_permission |-> TRUE, update_all_permission |-> TRUE,
          delete_all_permission |-> TRUE, create_permission |-> TRUE,
          read_permission |-> TRUE, update_permission |-> TRUE,
          delete_permission |-> TRUE ],
      manager |->
        [ read_all_permission |-> TRUE, update_all_permission |-> FALSE,
          delete_all_permission |-> FALSE, create_permission |-> TRUE,
          read_permission |-> TRUE, update_permission |-> TRUE,
          delete_permission |-> FALSE ],
      user |->
        [ read_all_permission |-> FALSE, update_all_permission |-> FALSE,
          delete_all_permission |-> FALSE, create_permission |-> FALSE,
          read_permission |-> TRUE, update_permission |-> FALSE,
          delete_permission |-> FALSE ] ]

\* One round of the "for element in [...]" loop that fills the rules.
EnsureBaselineRules(d, element, roles_map) ==
    LET a == create_access_rule_if_not_exists(d, roles_map.admin.id, element.id,
                                              permissions_map.admin)
        m == create_access_rule_if_not_exists(a, roles_map.manager.id, element.id,
                                              permissions_map.manager)
    IN  create_access_rule_if_not_exists(m, roles_map.user.id, element.id,
                                         permissions_map.user)

init_db(d) ==
    LET admin_role == get_or_create(d, "roles", "admin")
        manager_role == get_or_create(admin_role.db, "roles", "manager")
        user_role == get_or_create(manager_role.db, "roles", "user")
        roles_map == [ admin |-> admin_role.instance,
                       manager |-> manager_role.instance,
                       user |-> user_role.instance ]
        u1 == EnsureBaselineUser(user_role.db, "admin", roles_map)
        u2 == EnsureBaselineUser(u1, "manager", roles_map)
        u3 == EnsureBaselineUser(u2, "user", roles_map)
        users_element == get_or_create(u3, "elements", "users")
        business_element == get_or_create(users_element.db, "elements", "business_elements")
        r1 == EnsureBaselineRules(business_element.db, users_element.instance, roles_map)
    IN  EnsureBaselineRules(r1, business_element.instance, roles_map)

(***************************************************************************)
(* Request handlers.  Each yields the response's status and detail and the *)
(* committed state after the request.  A dependency (Depends) that raises  *)
(* ends the request before the handler's body runs.                        *)
(***************************************************************************)
Response(status, detail, d) == [status |-> status, detail |-> detail, db |-> d]

\* Mutant: the role named user is expected to be there, as create_user does.
register_user_NeedingRole(d, email, password, name) ==
    IF \E u \in d.users : u.email = email THEN Response(400, "EmailTaken", d)
    ELSE IF ~\E r \in d.roles : r.name = "user" THEN Response(500, "BaseRoleMissing", d)
    ELSE Response(201, "",
                  Insert(d, "users",
                         User(NextId(d, "users"), email, get_password_hash(password), name,
                              (CHOOSE r \in d.roles : r.name = "user").id, TRUE)))

\* POST /users/register
register_user(d, email, password, name) ==
    IF \E u \in d.users : u.email = email THEN Response(400, "EmailTaken", d)
    ELSE LET role == get_or_create(d, "roles", "user")
             new_user == User(NextId(role.db, "users"), email, get_password_hash(password),
                              name, role.instance.id, TRUE)
         IN  Response(201, "", Insert(role.db, "users", new_user))

\* Mutant: the password is not compared with the hash.
check_users_creds_AnyPassword(d, email, password) ==
    LET found == {u \in d.users : u.email = email} IN
    IF found = {} THEN HTTPException(401, "BadCredentials")
    ELSE Ok(CHOOSE u \in found : TRUE)

\* check_users_creds(email, password, session)
check_users_creds(d, email, password) ==
    LET found == {u \in d.users : u.email = email} IN
    IF found = {} THEN HTTPException(401, "BadCredentials")
    ELSE LET user == CHOOSE u \in found : TRUE IN
         IF ~verify_password(password, user.hashed_password)
         THEN HTTPException(401, "BadCredentials")
         ELSE Ok(user)

\* Mutant: the restored user is attached to the role named user again.
restore_user_AsRegistered(d, email, password) ==
    LET checked == check_users_creds(d, email, password) IN
    IF checked.status # 200 THEN Response(checked.status, checked.detail, d)
    ELSE IF checked.user.is_active THEN Response(409, "AlreadyActive", d)
    ELSE Response(201, "",
                  UpdateUser(d, checked.user,
                             [checked.user EXCEPT
                                 !.is_active = TRUE,
                                 !.role_id = (CHOOSE r \in d.roles : r.name = "user").id]))

\* PATCH /users/restore
restore_user(d, email, password) ==
    LET checked == check_users_creds(d, email, password) IN
    IF checked.status # 200 THEN Response(checked.status, checked.detail, d)
    ELSE IF checked.user.is_active THEN Response(409, "AlreadyActive", d)
    ELSE Response(201, "",
                  UpdateUser(d, checked.user, [checked.user EXCEPT !.is_active = TRUE]))

\* Mutant: the token is issued with its expiry already past.
login_IssuingExpired(d, email, password) ==
    LET checked == check_users_creds(d, email, password) IN
    IF checked.status # 200 \/ ~checked.user.is_active
    THEN [status |-> 401, detail |-> "BadCredentials", access_token |-> NoToken]
    ELSE [status |-> 200, detail |-> "",
          access_token |-> Token("expired", [sub |-> Str(checked.user.id)])]

\* POST /users/login: the response carries the access token.
login(d, email, password) ==
    LET checked == check_users_creds(d, email, password) IN
    IF checked.status # 200
    THEN [status |-> checked.status, detail |-> checked.detail, access_token |-> NoToken]
    ELSE IF ~checked.user.is_active
    THEN [status |-> 401, detail |-> "Inactive", access_token |-> NoToken]
    ELSE [status |-> 200, detail |-> "", access_token |-> create_access_token(checked.user.id)]

\* Mutant: a logout makes the user inactive, which turns the token away.
logout_Deactivating(d, token) ==
    LET current == get_current_user(d, token) IN
    IF current.status # 200 THEN Response(current.status, current.detail, d)
    ELSE Response(200, "", UpdateUser(d, current.user,
                                      [current.user EXCEPT !.is_active = FALSE]))

\* POST /users/logout: "we use JWT, so nothing is done here"
logout(d, token) ==
    LET current == get_current_user(d, token) IN
    Response(current.status, current.detail, d)

\* GET /users/me
get_me(d, token) ==
    LET current == get_current_user(d, token) IN
    Response(current.status, current.detail, d)

\* PATCH /users/me: "if value: setattr(current_user, key, value)"
update_me(d, token, user_update) ==
    LET current == get_current_user(d, token) IN
    IF current.status # 200 THEN Response(current.status, current.detail, d)
    ELSE LET changed ==
                 IF "name" \in DOMAIN user_update /\ user_update.name # ""
                 THEN [current.user EXCEPT !.name = user_update.name]
                 ELSE current.user
         IN  Response(200, "", UpdateUser(d, current.user, changed))

\* DELETE /users/me
delete_me(d, token) ==
    LET current == get_current_user(d, token) IN
    IF current.status # 200 THEN Response(current.status, current.detail, d)
    ELSE Response(200, "", UpdateUser(d, current.user,
                                      [current.user EXCEPT !.is_active = FALSE]))

\* GET /users/users
get_users(d, token) ==
    LET checked == PermissionChecker(d, token, "users", "read_all_permission") IN
    Response(checked.status, checked.detail, d)

\* POST /admin/users/create; role_id 0 stands for no role_id given.
create_user(d, token, email, password, name, role_id, is_active) ==
    LET admin == get_admin_user(d, token) IN
    IF admin.status # 200 THEN Response(admin.status, admin.detail, d)
    ELSE IF \E u \in d.users : u.email = email THEN Response(400, "EmailTaken", d)
    ELSE IF role_id # 0 /\ ~\E r \in d.roles : r.id = role_id
         THEN Response(404, "RoleNotFound", d)
    ELSE IF role_id = 0 /\ ~\E r \in d.roles : r.name = "user"
         THEN Response(500, "BaseRoleMissing", d)
    ELSE LET rid == IF role_id # 0 THEN role_id
                    ELSE (CHOOSE r \in d.roles : r.name = "user").id
         IN  Response(201, "",
                      Insert(d, "users",
                             User(NextId(d, "users"), email, get_password_hash(password),
                                  name, rid, is_active)))

\* DELETE /admin/users/soft_delete/{user_id}
soft_delete_user(d, token, user_id) ==
    LET admin == get_admin_user(d, token)
        found == UserById(d, user_id)
    IN  IF admin.status # 200 THEN Response(admin.status, admin.detail, d)
        ELSE IF found = {} THEN Response(404, "UserNotFound", d)
        ELSE LET user == CHOOSE u \in found : TRUE IN
             IF ~user.is_active THEN Response(409, "AlreadyDeleted", d)
             ELSE Response(200, "", UpdateUser(d, user, [user EXCEPT !.is_active = FALSE]))

\* DELETE /admin/users/total_delete/{user_id}
total_delete_user(d, token, user_id) ==
    LET admin == get_admin_user(d, token)
        found == UserById(d, user_id)
    IN  IF admin.status # 200 THEN Response(admin.status, admin.detail, d)
        ELSE IF found = {} THEN Response(404, "UserNotFound", d)
        ELSE Response(200, "", [d EXCEPT !.users = @ \ found])

\* Mutant: the role is assigned without being looked up.
update_user_role_Unchecked(d, token, user_id, role_id) ==
    LET admin == get_admin_user(d, token)
        found == UserById(d, user_id)
    IN  IF admin.status # 200 THEN Response(admin.status, admin.detail, d)
        ELSE IF found = {} THEN Response(404, "UserNotFound", d)
        ELSE LET user == CHOOSE u \in found : TRUE IN
             Response(200, "", UpdateUser(d, user, [user EXCEPT !.role_id = role_id]))

\* PATCH /admin/users/role/{user_id}
update_user_role(d, token, user_id, role_id) ==
    LET admin == get_admin_user(d, token)
        found == UserById(d, user_id)
    IN  IF admin.status # 200 THEN Response(admin.status, admin.detail, d)
        ELSE IF found = {} THEN Response(404, "UserNotFound", d)
        ELSE IF ~\E r \in d.roles : r.id = role_id THEN Response(404, "RoleNotFound", d)
        ELSE LET user == CHOOSE u \in found : TRUE IN
             Response(200, "", UpdateUser(d, user, [user EXCEPT !.role_id = role_id]))

(***************************************************************************)
(* Permission edit.  The request body is a JSON object whose values are    *)
(* the literals true, false and null.                                      *)
(***************************************************************************)
\* AccessRuleUpdate(**body).model_dump(exclude_unset=True): the schema's fields
\* that the body sets; other keys of the body are ignored.
model_dump(body) ==
    [key \in (DOMAIN body) \cap AccessRuleUpdate |-> body[key]]

\* "for key, value in update_data.items(): setattr(rule, key, value)": only a
\* mapped column reaches the row; any other name is a plain attribute of the
\* Python object and is not written.
SetAttrs(rule, update_data) ==
    [ c \in AccessRuleColumns |->
        IF c \in DOMAIN update_data THEN update_data[c] = "true" ELSE rule[c] ]

\* A flag column set to null violates NOT NULL at the commit.
SetsNull(update_data) ==
    \E key \in (DOMAIN update_data) \cap AccessRuleColumns : update_data[key] = "null"

\* PATCH /admin/permissions/{role_id}/{element_id}
update_access_rule(d, token, role_id, element_id, body) ==
    LET admin == get_admin_user(d, token)
        found == { rule \in d.rules :
                     rule.role_id = role_id /\ rule.business_element_id = element_id }
    IN  IF admin.status # 200 THEN Response(admin.status, admin.detail, d)
        ELSE IF Cardinality(found) > 1 THEN Response(500, "MultipleResultsFound", d)
        ELSE IF found = {} THEN Response(404, "RuleNotFound", d)
        ELSE LET rule == CHOOSE r \in found : TRUE
                 update_data == model_dump(body)
             IN  IF SetsNull(update_data) THEN Response(500, "IntegrityError", d)
                 ELSE Response(200, "",
                               [d EXCEPT !.rules = (@ \ {rule})
                                                     \cup {SetAttrs(rule, update_data)}])

(***************************************************************************)
(* Element creation: POST /business-elements/elements.  The request's      *)
(* session holds the rows it has added until the commit; what it has not   *)
(* committed is dropped when get_session closes the session.  The handler  *)
(* gives up control at its awaits: after the INSERT of the element (flush, *)
(* refresh), and at the commit, which follows select(Role) and the loop    *)
(* that adds the rules.                                                    *)
(***************************************************************************)
Idle == [pc |-> "idle"]

\* Mutant: the element is written, and committed, before the permission check.
create_business_element_ActFirst(d, token, name) ==
    LET checked == PermissionChecker(d, token, "business_elements", "create_permission")
        written == Insert(d, "elements", [id |-> NextId(d, "elements"), name |-> name])
    IN  IF checked.status # 200
        THEN [status |-> checked.status, detail |-> checked.detail, db |-> written, tx |-> Idle]
        ELSE [ status |-> 102, detail |-> "", db |-> written,
               tx |-> [ pc |-> "flushed",
                        new_element |-> [id |-> NextId(d, "elements"), name |-> name],
                        new_rules |-> <<>> ] ]

\* The dependency, the name check and the INSERT of the element.  The element's
\* id is drawn from the sequence at the flush.
create_business_element(d, token, name) ==
    LET checked == PermissionChecker(d, token, "business_elements", "create_permission") IN
    IF checked.status # 200
    THEN [status |-> checked.status, detail |-> checked.detail, db |-> d, tx |-> Idle]
    ELSE IF \E e \in d.elements : e.name = name
    THEN [status |-> 400, detail |-> "ElementExists", db |-> d, tx |-> Idle]
    ELSE [ status |-> 102, detail |-> "",
           db |-> [d EXCEPT !.seq.elements = @ + 1],
           tx |-> [ pc |-> "flushed",
                    new_element |-> [id |-> NextId(d, "elements"), name |-> name],
                    new_rules |-> <<>> ] ]

\* The rows of select(Role), in primary-key order.
RECURSIVE RoleList(_)
RoleList(roles) ==
    IF roles = {} THEN <<>>
    ELSE LET first == CHOOSE r \in roles : \A o \in roles : r.id <= o.id IN
         <<first>> \o RoleList(roles \ {first})

\* Mutant: only the role named admin is given a rule.
FanOut_AdminOnly(d, t) ==
    LET roles == RoleList({r \in d.roles : r.name = "admin"}) IN
    [t EXCEPT !.pc = "fanned",
              !.new_rules =
                  [ i \in 1..Len(roles) |->
                      AccessRule(0, roles[i].id, t.new_element.id,
                                 [p \in PermissionNames |-> TRUE]) ]]

\* Mutant: every role is given the read flag, as the bootstrap's defaults do.
FanOut_ReadForAll(d, t) ==
    LET roles == RoleList(d.roles) IN
    [t EXCEPT !.pc = "fanned",
              !.new_rules =
                  [ i \in 1..Len(roles) |->
                      AccessRule(0, roles[i].id, t.new_element.id,
                                 [p \in PermissionNames |->
                                     roles[i].name = "admin" \/ p = "read_permission"]) ]]

\* "for role in roles": one AccessRule per role, every flag is_admin.
FanOut(d, t) ==
    LET roles == RoleList(d.roles) IN
    [t EXCEPT !.pc = "fanned",
              !.new_rules =
                  [ i \in 1..Len(roles) |->
                      AccessRule(0, roles[i].id, t.new_element.id,
                                 [p \in PermissionNames |-> roles[i].name = "admin"]) ]]

\* The pending rules with the ids their INSERTs draw, in the order added.
WithIds(d, new_rules) ==
    { [new_rules[i] EXCEPT !.id = d.seq.rules + i] : i \in 1..Len(new_rules) }

\* await session.commit(): the element and the rules become visible together.
SessionCommit(d, t) ==
    [d EXCEPT !.elements = @ \cup {t.new_element},
              !.rules = @ \cup WithIds(d, t.new_rules),
              !.seq.rules = @ + Len(t.new_rules)]

\* Mutant: the flushed element stays behind when the session is closed.
SessionClose_KeepingFlushed(d, t) == [d EXCEPT !.elements = @ \cup {t.new_element}]

\* get_session: leaving "async with async_session() as session" on an
\* exception closes the session, which rolls back what it has not committed.
SessionClose(d, t) == d

(***************************************************************************)
(* Inputs.                                                                 *)
(***************************************************************************)
\* An address of the bootstrap and one that is not.
Emails == {"user@user.com", "x@x.com"}

UserIds == 1..(MaxUserId + 1)

RoleIds == 1..4

ElementIds == 1..(MaxElementId + 1)

ElementNames == {"reports", "users"}

UserUpdates == { [name |-> "N2"], [name |-> ""] }

\* The passwords of the bootstrap, the one requests register with, and a wrong one.
Passwords == {"admin", "manager", "user", "pw", "bad"}

\* Bodies over the schema's fields, a body that names a column the schema does
\* not have, a null, and a two-key body.
Bodies ==
    { [k \in {key} |-> v] :
        key \in {"create_permission", "read_all_permissions"}, v \in {"true", "false"} }
      \cup { [delete_all_permissions |-> "true"],
             [read_all_permission |-> "true"],
             [read_permission |-> "null"],
             [update_permission |-> "false", delete_permission |-> "true"] }

\* The element names a check is tried against: the two of the bootstrap, one
\* that a request may create, and one that only overlapping requests create.
CheckedElements == {"users", "business_elements", "reports", "invoices"}

NoArg == [none |-> TRUE]

(***************************************************************************)
(* Actions.  A step serves one request (or one await of the element        *)
(* creation in flight) and leaves its event in resp; Respond hands the     *)
(* response over, after which the next request is taken.                   *)
(***************************************************************************)
Event(op, status, detail, token, arg) ==
    [op |-> op, status |-> status, detail |-> detail, token |-> token, arg |-> arg]

Quiet == Event("-", 0, "", NoToken, NoArg)

Success == {200, 201}

\* A request served in one step; those that succeed in changing state count
\* against MaxWrites.
Serve(op, token, arg, r, counted) ==
    /\ resp = Quiet
    /\ counted /\ r.status \in Success => writes < MaxWrites
    /\ db' = r.db
    /\ writes' = IF counted /\ r.status \in Success THEN writes + 1 ELSE writes
    /\ resp' = Event(op, r.status, r.detail, token, arg)
    /\ UNCHANGED <<tx, sessions>>

Respond ==
    /\ resp # Quiet
    /\ resp' = Quiet
    /\ UNCHANGED <<db, tx, writes, sessions>>

\* A request that a dependency rejects is answered the same whatever its other
\* inputs are: one of them stands for all.
InputsAfter(dependency, inputs) ==
    IF dependency.status = 200 THEN inputs ELSE {CHOOSE x \in inputs : TRUE}

InitDb ==
    Serve("init_db", NoToken, NoArg, Response(0, "", init_db(db)), FALSE)

RegisterUser ==
    \E email \in {"x@x.com"} :
        Serve("register_user", NoToken, [email |-> email],
              register_user(db, email, "pw", "N1"), TRUE)

\* A restore gives back what a soft delete took and is not counted as a
\* further change.
RestoreUser ==
    \E email \in Emails, password \in {"user", "pw", "bad"} :
        Serve("restore_user", NoToken, [email |-> email],
              restore_user(db, email, password), FALSE)

Login ==
    \E email \in Emails, password \in {"user", "pw", "bad"} :
        LET r == login(db, email, password) IN
        Serve("login", NoToken, [email |-> email, access_token |-> r.access_token],
              Response(r.status, r.detail, db), FALSE)

Logout ==
    \E token \in Tokens : Serve("logout", token, NoArg, logout(db, token), FALSE)

\* Identity resolution alone, tried with every kind of token.
GetMe ==
    \E token \in AllTokens : Serve("get_me", token, NoArg, get_me(db, token), FALSE)

UpdateMe ==
    \E token \in Tokens :
        \E user_update \in InputsAfter(get_current_user(db, token), UserUpdates) :
            Serve("update_me", token, NoArg, update_me(db, token, user_update), TRUE)

DeleteMe ==
    \E token \in Tokens : Serve("delete_me", token, NoArg, delete_me(db, token), TRUE)

GetUsers ==
    \E token \in Tokens : Serve("get_users", token, NoArg, get_users(db, token), FALSE)

CreateUser ==
    \E token \in Tokens :
        \E in \in InputsAfter(get_admin_user(db, token),
                              Emails \X ({0} \cup RoleIds) \X BOOLEAN) :
            Serve("create_user", token, NoArg,
                  create_user(db, token, in[1], "pw", "N1", in[2], in[3]), TRUE)

SoftDeleteUser ==
    \E token \in Tokens :
        \E user_id \in InputsAfter(get_admin_user(db, token), UserIds) :
            Serve("soft_delete_user", token, NoArg,
                  soft_delete_user(db, token, user_id), TRUE)

TotalDeleteUser ==
    \E token \in Tokens :
        \E user_id \in InputsAfter(get_admin_user(db, token), UserIds) :
            Serve("total_delete_user", token, NoArg,
                  total_delete_user(db, token, user_id), TRUE)

UpdateUserRole ==
    \E token \in Tokens :
        \E in \in InputsAfter(get_admin_user(db, token), UserIds \X RoleIds) :
            LET r == update_user_role(db, token, in[1], in[2]) IN
            Serve("update_user_role", token,
                  IF r.status = 200 THEN [user_id |-> in[1], role_id |-> in[2]] ELSE NoArg,
                  r, TRUE)

UpdateAccessRule ==
    \E token \in Tokens :
        \E in \in InputsAfter(get_admin_user(db, token), RoleIds \X ElementIds \X Bodies) :
            LET r == update_access_rule(db, token, in[1], in[2], in[3]) IN
            Serve("update_access_rule", token,
                  IF r.status = 200
                  THEN [role_id |-> in[1], element_id |-> in[2], body |-> in[3]]
                  ELSE NoArg,
                  r, TRUE)

\* The request arrives: the checks, and the INSERT of the element in the
\* request's own session.  One such request is in flight at a time.
CreateElementBegin ==
    /\ resp = Quiet
    /\ tx = Idle
    /\ \E token \in Tokens, name \in ElementNames :
        LET r == create_business_element(db, token, name) IN
        /\ r.status = 102 => writes < MaxWrites
        /\ db' = r.db
        /\ tx' = r.tx
        /\ writes' = IF r.status = 102 THEN writes + 1 ELSE writes
        /\ resp' = Event("create_business_element", r.status, r.detail, token,
                         [name |-> name])
        /\ UNCHANGED sessions

\* select(Role) and the loop, up to the commit.
CreateElementFanOut ==
    /\ resp = Quiet
    /\ tx.pc = "flushed"
    /\ tx' = FanOut(db, tx)
    /\ resp' = Event("create_business_element.fan_out", 102, "", NoToken,
                     [name |-> tx.new_element.name])
    /\ UNCHANGED <<db, writes, sessions>>

CreateElementCommit ==
    /\ resp = Quiet
    /\ tx.pc = "fanned"
    /\ db' = SessionCommit(db, tx)
    /\ tx' = Idle
    /\ resp' = Event("create_business_element.commit", 200, "", NoToken,
                     [name |-> tx.new_element.name])
    /\ UNCHANGED <<writes, sessions>>

\* The database fails the request at an await after the element's INSERT (the
\* select of the roles, or the commit): the exception leaves the handler and
\* the session is closed.
CreateElementFail ==
    /\ resp = Quiet
    /\ tx.pc \in {"flushed", "fanned"}
    /\ db' = SessionClose(db, tx)
    /\ tx' = Idle
    /\ resp' = Event("create_business_element.rollback", 500, "DatabaseError", NoToken,
                     [name |-> tx.new_element.name, at |-> tx.pc])
    /\ UNCHANGED <<writes, sessions>>

EmptyDb ==
    [ roles |-> {}, users |-> {}, elements |-> {}, rules |-> {},
      seq |-> [roles |-> 0, users |-> 0, elements |-> 0, rules |-> 0] ]

\* The two sessions that may be open at once, and a session that is not open.
SessionIds == {"s1", "s2"}

Closed == [kind |-> "closed"]

Init ==
    /\ db = EmptyDb
    /\ tx = Idle
    /\ resp = Quiet
    /\ writes = 0
    /\ sessions = [s \in SessionIds |-> Closed]

Next ==
    \/ InitDb
    \/ RegisterUser
    \/ RestoreUser
    \/ Login
    \/ Logout
    \/ GetMe
    \/ UpdateMe
    \/ DeleteMe
    \/ GetUsers
    \/ CreateUser
    \/ SoftDeleteUser
    \/ TotalDeleteUser
    \/ UpdateUserRole
    \/ UpdateAccessRule
    \/ CreateElementBegin
    \/ CreateElementFanOut
    \/ CreateElementCommit
    \/ CreateElementFail
    \/ Respond

Spec == Init /\ [][Next]_vars

(***************************************************************************)
(* Overlapping bootstrap runs, element creations and permission edits.     *)
(* Each run or request works in its own session.  Under READ COMMITTED a   *)
(* statement sees the rows committed so far and the rows its own session   *)
(* has added.  Ids are drawn from the sequences when a row is added and    *)
(* are not given back.  An INSERT whose unique key (Role.name, User.email, *)
(* BusinessElement.name) is held by a row another open session has added   *)
(* waits for that session to end, and fails with IntegrityError when the   *)
(* key is then committed; the exception closes the session.  AccessRule    *)
(* has no unique key besides its id.  A permission edit is one short       *)
(* transaction on one row and is taken as a single step.                   *)
(***************************************************************************)
\* Sessions begun and permission edits served in a run of overlapping work.
MaxStarts == MaxWrites + 2

\* The statements of init_db in the order it runs them; each looks its row up
\* and adds it when the lookup finds none.
InitStatements ==
    << [table |-> "roles", name |-> "admin"],
       [table |-> "roles", name |-> "manager"],
       [table |-> "roles", name |-> "user"],
       [table |-> "users", role |-> "admin"],
       [table |-> "users", role |-> "manager"],
       [table |-> "users", role |-> "user"],
       [table |-> "elements", name |-> "users"],
       [table |-> "elements", name |-> "business_elements"],
       [table |-> "rules", element |-> "users", role |-> "admin"],
       [table |-> "rules", element |-> "users", role |-> "manager"],
       [table |-> "rules", element |-> "users", role |-> "user"],
       [table |-> "rules", element |-> "business_elements", role |-> "admin"],
       [table |-> "rules", element |-> "business_elements", role |-> "manager"],
       [table |-> "rules", element |-> "business_elements", role |-> "user"] >>

\* The instance a lookup by name has returned.
ByName(d, table, name) == CHOOSE x \in d[table] : x.name = name

\* One statement of init_db on the rows the session sees.
Statement(d, st) ==
    CASE st.table \in {"roles", "elements"} -> get_or_create(d, st.table, st.name).db
      [] st.table = "users" ->
            EnsureBaselineUser(d, st.role,
                               [n \in {"admin", "manager", "user"} |-> ByName(d, "roles", n)])
      [] st.table = "rules" ->
            create_access_rule_if_not_exists(d, ByName(d, "roles", st.role).id,
                                             ByName(d, "elements", st.element).id,
                                             permissions_map[st.role])

NoPending == [roles |-> {}, users |-> {}, elements |-> {}, rules |-> {}]

NoRow == [table |-> "none"]

\* What a statement of a session sees: the committed rows and its own.
Visible(d, pending) ==
    [d EXCEPT !.roles = @ \cup pending.roles, !.users = @ \cup pending.users,
              !.elements = @ \cup pending.elements, !.rules = @ \cup pending.rules]

\* The tables with a unique column, and a row's value in it.
Keyed == {"roles", "users", "elements"}

KeyOf(table, row) == IF table = "users" THEN row.email ELSE row.name

\* Another open session has added a row of that key and has not ended.
HeldByOther(id, table, key) ==
    \E o \in SessionIds \ {id} :
        /\ sessions[o].kind # "closed"
        /\ \E row \in sessions[o].pending[table] : KeyOf(table, row) = key

OpenSession(kind, pending, want, t) ==
    [kind |-> kind, pc |-> 1, pending |-> pending, want |-> want, t |-> t]

\* The INSERT of a row: it waits when the key is held, else the row is added.
Add(id, s, table, row) ==
    IF table \in Keyed /\ HeldByOther(id, table, KeyOf(table, row))
    THEN [s EXCEPT !.want = [table |-> table, row |-> row]]
    ELSE [s EXCEPT !.pending[table] = @ \cup {row}, !.pc = @ + 1]

BootBegin(id) ==
    /\ sessions[id] = Closed
    /\ writes < MaxStarts
    /\ sessions' = [sessions EXCEPT ![id] = OpenSession("init_db", NoPending, NoRow, Idle)]
    /\ writes' = writes + 1
    /\ UNCHANGED <<db, tx, resp>>

BootStatement(id) ==
    LET s == sessions[id] IN
    /\ s.kind = "init_db"
    /\ s.want = NoRow
    /\ s.pc <= Len(InitStatements)
    /\ LET st == InitStatements[s.pc]
           seen == Visible(db, s.pending)
           after == Statement(seen, st)
           new == after[st.table] \ seen[st.table]
       IN  /\ db' = [db EXCEPT !.seq = after.seq]
           /\ sessions' = [sessions EXCEPT ![id] =
                             IF new = {} THEN [s EXCEPT !.pc = @ + 1]
                             ELSE Add(id, s, st.table, CHOOSE row \in new : TRUE)]
    /\ UNCHANGED <<tx, resp, writes>>

\* The session that held the key has ended: the waiting INSERT fails when the
\* key is now committed, and adds its row otherwise.
Unblock(id) ==
    LET s == sessions[id] IN
    /\ s.kind # "closed"
    /\ s.want # NoRow
    /\ ~HeldByOther(id, s.want.table, KeyOf(s.want.table, s.want.row))
    /\ sessions' = [sessions EXCEPT ![id] =
                      IF \E row \in db[s.want.table] :
                            KeyOf(s.want.table, row) = KeyOf(s.want.table, s.want.row)
                      THEN Closed
                      ELSE [s EXCEPT !.pending[s.want.table] = @ \cup {s.want.row},
                                     !.want = NoRow, !.pc = @ + 1]]
    /\ UNCHANGED <<db, tx, resp, writes>>

\* await session.commit() of init_db.
BootCommit(id) ==
    LET s == sessions[id] IN
    /\ s.kind = "init_db"
    /\ s.want = NoRow
    /\ s.pc = Len(InitStatements) + 1
    /\ db' = Visible(db, s.pending)
    /\ sessions' = [sessions EXCEPT ![id] = Closed]
    /\ UNCHANGED <<tx, resp, writes>>

\* An element creation that its checks let through, up to the INSERT of the
\* element.
CreateBegin(id) ==
    /\ sessions[id] = Closed
    /\ writes < MaxStarts
    /\ \E token \in Tokens, name \in CheckedElements :
          LET r == create_business_element(db, token, name) IN
          /\ r.status = 102
          /\ db' = r.db
          /\ sessions' = [sessions EXCEPT ![id] =
                            Add(id, OpenSession("create", NoPending, NoRow, r.tx),
                                "elements", r.tx.new_element)]
    /\ writes' = writes + 1
    /\ UNCHANGED <<tx, resp>>

CreateFanOut(id) ==
    LET s == sessions[id] IN
    /\ s.kind = "create"
    /\ s.want = NoRow
    /\ s.t.pc = "flushed"
    /\ sessions' = [sessions EXCEPT ![id] = [s EXCEPT !.t = FanOut(db, s.t)]]
    /\ UNCHANGED <<db, tx, resp, writes>>

CreateCommit(id) ==
    LET s == sessions[id] IN
    /\ s.kind = "create"
    /\ s.t.pc = "fanned"
    /\ db' = SessionCommit(db, s.t)
    /\ sessions' = [sessions EXCEPT ![id] = Closed]
    /\ UNCHANGED <<tx, resp, writes>>

\* A permission edit that is carried out.
EditRule ==
    /\ writes < MaxStarts
    /\ \E token \in Tokens, role_id \in RoleIds, element_id \in ElementIds :
          LET r == update_access_rule(db, token, role_id, element_id,
                                      [create_permission |-> "false"]) IN
          /\ r.status = 200
          /\ db' = r.db
    /\ writes' = writes + 1
    /\ UNCHANGED <<tx, resp, sessions>>

ConcurrentNext ==
    \/ \E id \in SessionIds :
          \/ BootBegin(id)
          \/ BootStatement(id)
          \/ Unblock(id)
          \/ BootCommit(id)
          \/ CreateBegin(id)
          \/ CreateFanOut(id)
          \/ CreateCommit(id)
    \/ EditRule

ConcurrentSpec == Init /\ [][ConcurrentNext]_vars

(***************************************************************************)
(* Properties.                                                             *)
(***************************************************************************)
\* The response of the last request has been handed over.  Respond leaves the
\* committed state as it is, so every committed state that is reached is
\* reached with resp = Quiet as well; the properties of the committed state
\* alone are evaluated there.
BetweenRequests == resp = Quiet

\* C1 (deny by default): a user whose role has no AccessRule row for the named
\* element - the element does not exist, or the pair (role, element) has no
\* row - is denied each of the seven permissions with 403, whether the check is
\* made on the resolved user or through the user's token, and also when the
\* role is admin.  The second conjunct tries the same on the committed state
\* with one of the role's rows absent.
C1_DenyByDefault ==
    BetweenRequests =>
    \A u \in db.users, e \in CheckedElements, p \in PermissionNames :
        LET NoRule(d) ==
                ~\E b \in d.elements, rule \in d.rules :
                    /\ b.name = e
                    /\ rule.business_element_id = b.id
                    /\ rule.role_id = u.role_id
            Denied(d) ==
                /\ CheckPermission(d, u, e, p).status = 403
                /\ u.is_active =>
                     PermissionChecker(d, create_access_token(u.id), e, p).status = 403
        IN  /\ NoRule(db) => Denied(db)
            /\ \A rule \in db.rules :
                   rule.role_id = u.role_id =>
                       LET without == [db EXCEPT !.rules = @ \ {rule}] IN
                       NoRule(without) => Denied(without)

\* A listing of the users was refused because the element "users" has no row.
C1_Witness ==
    /\ resp.op = "get_users"
    /\ resp.status = 403
    /\ resp.detail = "RuleNotFound"
    /\ \E u \in db.users : resp.token = create_access_token(u.id)
    /\ ~\E b \in db.elements : b.name = "users"

\* C2 (flag fidelity): when the AccessRule row of (role, element) exists, the
\* check of permission p allows exactly when the row's flag p is true and
\* denies with 403 exactly when it is false; inverting any one of the other
\* six flags of the row does not change the outcome.
C2_FlagFidelity ==
    BetweenRequests =>
    \A rule \in db.rules, b \in db.elements, u \in db.users, p \in PermissionNames :
        (rule.business_element_id = b.id /\ rule.role_id = u.role_id) =>
            LET Outcome(d) == CheckPermission(d, u, b.name, p).status
                Inverted(q) == [db EXCEPT !.rules = (@ \ {rule})
                                              \cup {[rule EXCEPT ![q] = ~@]}]
            IN  /\ Outcome(db) = IF rule[p] THEN 200 ELSE 403
                /\ \A q \in PermissionNames \ {p} : Outcome(Inverted(q)) = Outcome(db)

\* A listing of the users was refused on the read_all flag to a caller whose
\* row has the read flag set.
C2_Witness ==
    /\ resp.op = "get_users"
    /\ resp.status = 403
    /\ resp.detail = "PermissionDenied"
    /\ \E u \in db.users :
          /\ resp.token = create_access_token(u.id)
          /\ \E rule \in RulesFor(db, u.role_id, "users") :
                rule.read_permission /\ ~rule.read_all_permission

\* C3 (inactive-user lockout): the valid, unexpired token of a user whose
\* is_active is false resolves to no principal (401, InvalidToken), as a
\* current user and as an administrator; and every request that arrives with
\* such a token is answered 401 and changes nothing.
C3_InactiveLockout ==
    /\ [](\A u \in db.users :
             ~u.is_active =>
                 /\ get_current_user(db, create_access_token(u.id)) = credentials_exception
                 /\ get_admin_user(db, create_access_token(u.id)) = credentials_exception)
    /\ [][\A u \in db.users :
             (~u.is_active /\ resp'.token = create_access_token(u.id)) =>
                 /\ resp'.status = 401
                 /\ resp'.detail = "InvalidToken"
                 /\ db' = db
                 /\ tx' = tx]_vars

\* A request with the token of a deactivated user was answered 401.
C3_Witness ==
    /\ resp.status = 401
    /\ \E u \in db.users : ~u.is_active /\ resp.token = create_access_token(u.id)

\* The field of the request schema that stands for each flag column.
SchemaField ==
    [ read_permission |-> "read_permission",
      read_all_permission |-> "read_all_permissions",
      create_permission |-> "create_permission",
      update_permission |-> "update_permission",
      update_all_permission |-> "update_all_permissions",
      delete_permission |-> "delete_permission",
      delete_all_permission |-> "delete_all_permissions" ]

\* C4 (permission edits take effect immediately): once a permission edit of
\* (role, element) that sets the field of flag p to v has been answered 200,
\* the check of p for that role on that element allows exactly when v is true,
\* for each of the seven flags.
C4_EditsTakeEffect ==
    [][(resp'.op = "update_access_rule" /\ resp'.status = 200) =>
          \A p \in PermissionNames :
              SchemaField[p] \in DOMAIN resp'.arg.body =>
                  \A b \in db'.elements :
                      b.id = resp'.arg.element_id =>
                          CheckPermission(db', [role_id |-> resp'.arg.role_id], b.name, p).status
                              = IF resp'.arg.body[SchemaField[p]] = "true" THEN 200 ELSE 403]_vars

\* The flags whose holder may be taken to be permitted each protected
\* operation, on whichever element the flag is held.
GateFlags ==
    [ update_me |-> {"update_permission", "update_all_permission"},
      delete_me |-> {"delete_permission", "delete_all_permission"},
      get_users |-> {"read_all_permission"},
      create_user |-> {"create_permission"},
      soft_delete_user |-> {"delete_permission", "delete_all_permission"},
      total_delete_user |-> {"delete_permission", "delete_all_permission"},
      update_user_role |-> {"update_permission", "update_all_permission"},
      update_access_rule |-> {"update_permission", "update_all_permission"},
      create_business_element |-> {"create_permission"} ]

\* C5 (every protected operation is gated): a protected operation is carried
\* out, or accepted, only for a caller whose role holds a flag that fits the
\* operation on some element.
C5_GatedByFlag ==
    [][(resp'.op \in DOMAIN GateFlags /\ resp'.status \in {200, 201, 102}) =>
          \E u \in db.users :
              /\ resp'.token = create_access_token(u.id)
              /\ \E b \in db.elements, p \in GateFlags[resp'.op] :
                    CheckPermission(db, u, b.name, p).status = 200]_vars

\* C6 (check strictly precedes act): a request answered 401 or 403 leaves the
\* committed state, the id sequences included, and the transaction in flight
\* exactly as they were; and an element creation by a user whose role's row on
\* "business_elements" has create_permission false is answered 403, with
\* nothing created and no transaction begun.
C6_CheckPrecedesAct ==
    /\ [][resp'.status \in {401, 403} => (db' = db /\ tx' = tx)]_vars
    /\ [][resp'.op = "create_business_element" =>
             \A u \in db.users :
                 ( /\ u.is_active
                   /\ resp'.token = create_access_token(u.id)
                   /\ \E rule \in RulesFor(db, u.role_id, "business_elements") :
                         ~rule.create_permission ) =>
                     (resp'.status = 403 /\ db' = db /\ tx' = Idle)]_vars

\* The creation of an element whose name is free was refused on the flag.
C6_Witness ==
    /\ resp.op = "create_business_element"
    /\ resp.status = 403
    /\ resp.detail = "PermissionDenied"
    /\ tx = Idle
    /\ ~\E b \in db.elements : b.name = resp.arg.name

\* C7 (element creation fan-out): an element creation by a user whose role's
\* row on "business_elements" has create_permission true, under a name no
\* element has, is accepted; and its commit is answered 200 and adds the
\* element and exactly one AccessRule row per role R of that instant - no row
\* else, nothing removed - each for the new element, with all seven flags true
\* for the role named admin and all seven false for every other role.
C7_FanOut ==
    /\ [][resp'.op = "create_business_element" =>
             \A u \in db.users :
                 ( /\ u.is_active
                   /\ resp'.token = create_access_token(u.id)
                   /\ \E rule \in RulesFor(db, u.role_id, "business_elements") :
                         rule.create_permission
                   /\ ~\E b \in db.elements : b.name = resp'.arg.name ) =>
                     (resp'.status = 102 /\ tx'.pc = "flushed")]_vars
    /\ [][resp'.op = "create_business_element.commit" =>
             LET created == db'.elements \ db.elements
                 added == db'.rules \ db.rules
             IN  /\ resp'.status = 200
                 /\ Cardinality(created) = 1
                 /\ \A b \in created : b.name = resp'.arg.name
                 /\ db.elements \subseteq db'.elements
                 /\ db.rules \subseteq db'.rules
                 /\ db'.roles = db.roles
                 /\ db'.users = db.users
                 /\ Cardinality(added) = Cardinality(db.roles)
                 /\ \A r \in db.roles :
                       Cardinality({rule \in added : rule.role_id = r.id}) = 1
                 /\ \A rule \in added :
                       /\ \E b \in created : rule.business_element_id = b.id
                       /\ \E r \in db.roles : rule.role_id = r.id
                       /\ \A old \in db.rules : old.id # rule.id
                       /\ \A r \in db.roles :
                             rule.role_id = r.id =>
                                 \A p \in PermissionNames : rule[p] = (r.name = "admin")]_vars

\* The element "reports" was committed with a row for each of the three roles.
C7_Witness ==
    /\ resp.op = "create_business_element.commit"
    /\ resp.status = 200
    /\ Cardinality(db.roles) = 3
    /\ \E b \in db.elements :
          /\ b.name = "reports"
          /\ Cardinality({rule \in db.rules : rule.business_element_id = b.id}) = 3

\* C8 (atomic element creation): what an element creation has written and not
\* committed is not in the committed state; a creation that fails after its
\* element was written - before or after the rules were added - leaves the
\* committed state as it was, with neither the element nor a rule of it; and
\* no committed element is without the row of some role.
C8_AtomicCreation ==
    /\ [](tx.pc # "idle" =>
             /\ \A b \in db.elements :
                   b.id # tx.new_element.id /\ b.name # tx.new_element.name
             /\ \A rule \in db.rules : rule.business_element_id # tx.new_element.id)
    /\ [][resp'.op = "create_business_element.rollback" =>
             /\ db' = db
             /\ tx' = Idle
             /\ \A b \in db'.elements :
                   b.id # tx.new_element.id /\ b.name # resp'.arg.name
             /\ \A rule \in db'.rules : rule.business_element_id # tx.new_element.id]_vars
    /\ [](\A b \in db.elements, r \in db.roles :
             \E rule \in db.rules :
                 rule.business_element_id = b.id /\ rule.role_id = r.id)

\* A creation of "reports" failed after its rules had been added, and no
\* element of that name is committed.
C8_Witness ==
    /\ resp.op = "create_business_element.rollback"
    /\ resp.arg.at = "fanned"
    /\ tx = Idle
    /\ ~\E b \in db.elements : b.name = resp.arg.name

\* C9 (idempotent provisioning): from any committed state, the state a run of
\* init_db leaves is one that a further run leaves as it is: the second run
\* adds no role, user, element or rule and draws no id.
C9_IdempotentProvisioning ==
    [][resp'.op = "init_db" =>
          /\ db' = init_db(db)
          /\ init_db(db') = db']_vars

\* init_db ran on a state it had provisioned before: the user registered since
\* holds the id after those of the three baseline users.
C9_Witness ==
    /\ resp.op = "init_db"
    /\ Cardinality(db.rules) = 6
    /\ \E u \in db.users : u.email = "x@x.com" /\ u.id = 4

\* C10 (provisioning never overwrites): every AccessRule row present before a
\* run of init_db is present after it with its id, role, element and seven
\* flags as they were.
C10_NeverOverwrites ==
    [][resp'.op = "init_db" => \A rule \in db.rules : rule \in db'.rules]_vars

\* init_db ran over a baseline row that a permission edit had moved away from
\* the defaults, and the row still differs from them.
C10_Witness ==
    /\ resp.op = "init_db"
    /\ \E rule \in db.rules, r \in db.roles :
          /\ rule.role_id = r.id
          /\ r.name \in DOMAIN permissions_map
          /\ \E b \in db.elements :
                b.id = rule.business_element_id /\ b.name \in {"users", "business_elements"}
          /\ \E p \in PermissionNames : rule[p] # permissions_map[r.name][p]

\* C11 (rule completeness): in every committed state reached through bootstrap
\* runs, registrations, admin user operations and element creations, every
\* pair of an existing role and an existing element has an AccessRule row.
C11_RuleCompleteness ==
    \A r \in db.roles, b \in db.elements :
        {rule \in db.rules : rule.role_id = r.id /\ rule.business_element_id = b.id} # {}

\* A third element has been created next to the two of the bootstrap, under the
\* three roles.
C11_Witness ==
    /\ BetweenRequests
    /\ Cardinality(db.roles) = 3
    /\ Cardinality(db.elements) = 3
    /\ \E b \in db.elements : b.name = "reports"

\* C12 (rule uniqueness under overlap): in every committed state reached by
\* any interleaving of overlapping bootstrap runs, element creations and
\* permission edits, no two AccessRule rows have the same role_id and
\* business_element_id.
C12_RuleUniqueness ==
    \A one \in db.rules, other \in db.rules :
        (one.role_id = other.role_id
            /\ one.business_element_id = other.business_element_id) => one = other

\* A bootstrap run in its rules statements overlaps an element creation that
\* has added its rules, over a provisioned database.
C12_Witness ==
    /\ Cardinality(db.rules) >= 6
    /\ \E a \in SessionIds, b \in SessionIds :
          /\ sessions[a].kind = "init_db"
          /\ sessions[a].pc > 8
          /\ sessions[b].kind = "create"
          /\ sessions[b].t.pc = "fanned"

\* The password a user's hash was made from.
PasswordOf(user) == CHOOSE pw \in Passwords : verify_password(pw, user.hashed_password)

\* C13 (soft-delete/restore symmetry): for every active user, a soft delete -
\* by the user or by an administrator - followed at once by the user's restore
\* gives back the committed state as it was before the soft delete, so the
\* role, the rules and every other row are as before and identity resolution
\* and the permission checks answer every token as before; and a restore that
\* is carried out is undone exactly by a soft delete.
C13_SoftDeleteRestoreSymmetry ==
    /\ [](BetweenRequests =>
             \A u \in db.users :
                 u.is_active =>
                     LET own == create_access_token(u.id)
                         Restored(deleted) == restore_user(deleted.db, u.email, PasswordOf(u))
                         Same(r) ==
                             /\ r.status = 201
                             /\ r.db = db
                             /\ \A token \in Tokens :
                                   /\ get_current_user(r.db, token) = get_current_user(db, token)
                                   /\ \A e \in CheckedElements :
                                         PermissionChecker(r.db, token, e, "read_permission")
                                             = PermissionChecker(db, token, e, "read_permission")
                     IN  /\ delete_me(db, own).status = 200
                         /\ ~get_current_user(delete_me(db, own).db, own).status = 200
                         /\ Same(Restored(delete_me(db, own)))
                         /\ \A admin \in Tokens :
                               soft_delete_user(db, admin, u.id).status = 200 =>
                                   Same(Restored(soft_delete_user(db, admin, u.id))))
    /\ [][(resp'.op = "restore_user" /\ resp'.status = 201) =>
             \E u \in db'.users :
                 /\ u.email = resp'.arg.email
                 /\ u.is_active
                 /\ delete_me(db', create_access_token(u.id)).db = db
                 /\ tx' = tx]_vars

\* A soft-deleted user has been restored.
C13_Witness ==
    /\ resp.op = "restore_user"
    /\ resp.status = 201
    /\ \E u \in db.users : u.email = resp.arg.email /\ u.is_active

\* A token that is rejected for being malformed, expired or wrongly signed,
\* or for naming a user that does not exist or is inactive.
Rejected(d, token) ==
    \/ token.kind \in {"malformed", "expired", "badsig"}
    \/ /\ token.kind = "valid"
       /\ "sub" \in DOMAIN token.payload
       /\ IsNumeral(token.payload.sub)
       /\ \A u \in d.users : u.id = IntOf(token.payload.sub) => ~u.is_active

\* C14 (identity-resolution failures are indistinguishable): any two tokens
\* rejected for being malformed, expired, wrongly signed, naming no existing
\* user or naming an inactive user get the same outcome of identity
\* resolution, status 401 with the one generic detail; and the responses to
\* such tokens carry that status and detail.
C14_IndistinguishableFailures ==
    /\ [](BetweenRequests =>
             \A one \in AllTokens, other \in AllTokens :
                 (Rejected(db, one) /\ Rejected(db, other)) =>
                     /\ get_current_user(db, one) = get_current_user(db, other)
                     /\ get_current_user(db, one).status = 401)
    /\ [][(resp'.op = "get_me" /\ Rejected(db, resp'.token)) =>
             (resp'.status = 401 /\ resp'.detail = "InvalidToken" /\ db' = db)]_vars

\* The token of a user who exists and is inactive was answered 401 while a
\* token of each other kind of rejection is at hand.
C14_Witness ==
    /\ resp.op = "get_me"
    /\ resp.status = 401
    /\ resp.token.kind = "valid"
    /\ \E u \in db.users : ~u.is_active /\ resp.token = create_access_token(u.id)
    /\ \E t \in Tokens : t.kind = "valid" /\ \A u \in db.users : t # create_access_token(u.id)

\* C15 (canonical admin account): after every completed run of init_db, from
\* any reachable prior state, there is a user admin@admin.com whose role is
\* the role named admin.
C15_CanonicalAdmin ==
    [][resp'.op = "init_db" =>
          \E u \in db'.users :
              u.email = "admin@admin.com" /\ RoleName(db', u.role_id) = "admin"]_vars

\* C16 (user-role invariant): in every reachable state every user row refers
\* to exactly one role that exists; a role change to a role id that does not
\* exist, by whatever caller and for whatever user, is not carried out and
\* leaves the committed state as it is, and so does a user creation that names
\* such a role id.
C16_UserRole ==
    /\ \A u \in db.users : Cardinality({r \in db.roles : r.id = u.role_id}) = 1
    /\ BetweenRequests =>
          \A token \in Tokens, role_id \in RoleIds :
              (\A r \in db.roles : r.id # role_id) =>
                  /\ \A user_id \in UserIds :
                        LET changed == update_user_role(db, token, user_id, role_id) IN
                        /\ changed.status \in {401, 403, 404}
                        /\ changed.db = db
                        /\ (get_admin_user(db, token).status = 200 /\ UserById(db, user_id) # {})
                              => changed.detail = "RoleNotFound"
                  /\ \A email \in Emails :
                        LET created == create_user(db, token, email, "pw", "N1", role_id, TRUE) IN
                        created.status # 201 /\ created.db = db

\* A role change to a role id that no role has was answered 404, with users of
\* all three roles in place.
C16_Witness ==
    /\ resp.op = "update_user_role"
    /\ resp.status = 404
    /\ resp.detail = "RoleNotFound"
    /\ \A r \in db.roles : \E u \in db.users : u.role_id = r.id
    /\ Cardinality(db.roles) = 3

\* C17 (login round trip): for every existing active user, login with the
\* user's email and password succeeds and returns a token that verifies, and
\* identity resolution of that token yields exactly that user - in the state
\* of the login and, the token being the same in every state, in every later
\* state in which the user is present and active; a login that is answered 200
\* has returned the token of the user of that email; and the subject of a
\* token reads back as the key it was written from, for every key to MaxKey.
C17_LoginRoundTrip ==
    /\ [](BetweenRequests =>
             \A u \in db.users :
                 u.is_active =>
                     LET answer == login(db, u.email, PasswordOf(u)) IN
                     /\ answer.status = 200
                     /\ jwt_decode_ok(answer.access_token)
                     /\ get_current_user(db, answer.access_token) = Ok(u)
                     /\ IntOf(answer.access_token.payload.sub) = u.id)
    /\ [](db = EmptyDb =>
             \A key \in 1..MaxKey :
                 /\ IsNumeral(create_access_token(key).payload.sub)
                 /\ IntOf(create_access_token(key).payload.sub) = key)
    /\ [][(resp'.op = "login" /\ resp'.status = 200) =>
             \E u \in db'.users :
                 /\ u.email = resp'.arg.email
                 /\ get_current_user(db', resp'.arg.access_token) = Ok(u)]_vars

\* A login was answered 200 with a token.
C17_Witness ==
    /\ resp.op = "login"
    /\ resp.status = 200
    /\ resp.arg.access_token.kind = "valid"
    /\ \E u \in db.users : u.email = resp.arg.email /\ u.is_active

\* What a registration with the given email does to the committed state d.
Registered(d, email, r) ==
    IF \E u \in d.users : u.email = email
    THEN /\ r.status = 400
         /\ r.db = d
    ELSE /\ r.status = 201
         /\ d.users \subseteq r.db.users
         /\ Cardinality(r.db.users \ d.users) = 1
         /\ \A new \in r.db.users \ d.users :
               /\ new.email = email
               /\ new.is_active
               /\ \A u \in d.users : u.id # new.id
               /\ \E role \in r.db.roles : role.id = new.role_id /\ role.name = "user"
         /\ Cardinality({role \in r.db.roles : role.name = "user"}) = 1
         /\ d.roles \subseteq r.db.roles
         /\ (\E role \in d.roles : role.name = "user") => r.db.roles = d.roles
         /\ r.db.elements = d.elements
         /\ r.db.rules = d.rules

C19_BadSubjectIsInvalidToken ==
    \A token \in AllTokens :
        ( /\ jwt_decode_ok(token)
          /\ ("sub" \in DOMAIN token.payload => ~IsNumeral(token.payload.sub)) ) =>
            get_current_user(db, token) = credentials_exception

\* Names that are none of the seven flags: a misspelt flag (the plural of the
\* request schema), a name of nothing, and the name of another column.
UnknownPermissions == {"read_all_permissions", "bogus", "id"}

\* C20 (unknown permission name fails loudly): a permission check made with a
\* name outside the seven flags ends, for every user and every element, with
\* or without a rule, neither in Allow nor in Deny (403) but in an error.
C20_UnknownPermissionFailsLoudly ==
    \A u \in db.users, e \in CheckedElements, p \in UnknownPermissions :
        /\ CheckPermission(db, u, e, p).status \notin {200, 403}
        /\ CheckPermission(db, u, e, p).status = 500

\* C21 (distinct denial reasons): the check denies with 403 in each of three
\* cases and reports each of them differently from the other two: the named
\* element has no row (ElementNotFound), the element has a row but the
\* caller's role has no rule on it (RuleNotFound), the rule is there and its
\* flag is false (PermissionDenied).  The second and third case are tried on
\* the committed state with the role's rule absent, or with its flag cleared.
C21_DistinctDenialReasons ==
    \A u \in db.users, e \in CheckedElements, p \in PermissionNames :
        \A b \in db.elements, rule \in db.rules :
            ( /\ ~\E other \in db.elements : other.name = e
              /\ rule.role_id = u.role_id
              /\ rule.business_element_id = b.id ) =>
                LET missing == CheckPermission(db, u, e, p)
                    absent  == CheckPermission([db EXCEPT !.rules = @ \ {rule}],
                                               u, b.name, p)
                    refused == CheckPermission(
                                   [db EXCEPT !.rules =
                                       (@ \ {rule}) \cup {[rule EXCEPT ![p] = FALSE]}],
                                   u, b.name, p)
                IN  /\ {missing.status, absent.status, refused.status} = {403}
                    /\ missing.detail # absent.detail
                    /\ absent.detail # refused.detail
                    /\ missing.detail # refused.detail

\* What the rule of (role, element) says about permission p: 200 when the
\* role has a rule on the element of that name and the rule's flag is true,
\* 403 when the flag is false or there is no such rule.
RuleDecision(d, role_id, e, p) ==
    IF \E b \in d.elements, rule \in d.rules :
           /\ b.name = e
           /\ rule.business_element_id = b.id
           /\ rule.role_id = role_id
           /\ rule[p]
    THEN 200 ELSE 403

\* C22 (role changes apply to tokens already issued): when an admin's role
\* change of a user is accepted, every token that resolved to that user before
\* the change resolves to the user with the new role after it, and each
\* permission check made with it is decided by the new role's rule; and in
\* every later state a check made with a token is decided by the rule of the
\* role its user has in that state, whatever role the user had before.
C22_RoleChangeAppliesToIssuedTokens ==
    /\ [][(resp'.op = "update_user_role" /\ resp'.status = 200) =>
             \A token \in Tokens, u \in db.users :
                 ( /\ u.id = resp'.arg.user_id
                   /\ get_current_user(db, token) = Ok(u) ) =>
                     /\ get_current_user(db', token)
                            = Ok([u EXCEPT !.role_id = resp'.arg.role_id])
                     /\ \A e \in CheckedElements, p \in PermissionNames :
                            PermissionChecker(db', token, e, p).status
                                = RuleDecision(db', resp'.arg.role_id, e, p)]_vars
    /\ [](BetweenRequests =>
             \A token \in Tokens, u \in db.users :
                 get_current_user(db, token) = Ok(u) =>
                     \A e \in CheckedElements, p \in PermissionNames :
                         PermissionChecker(db, token, e, p).status
                             = RuleDecision(db, u.role_id, e, p))

\* The user provisioned with the role user was moved to the role manager, and
\* a listing of the users asked with that user's token was then allowed, as
\* the manager's rule says and the user's rule does not.
C22_Witness ==
    /\ resp.op = "get_users"
    /\ resp.status = 200
    /\ \E u \in db.users :
          /\ u.email = "user@user.com"
          /\ resp.token = create_access_token(u.id)
          /\ RoleName(db, u.role_id) = "manager"
          /\ \E r \in db.roles :
                r.name = "user" /\ RuleDecision(db, r.id, "users", "read_all_permission") = 403

\* C23 (self-service restore undoes any soft delete): in every committed
\* state a restore - a request that carries no token - with the email and the
\* password of an inactive user is answered 201 and changes the user's
\* is_active to true and nothing else, after which every unexpired token of
\* the user, rejected while the user was inactive, resolves to the user and
\* the expired ones stay rejected; a restore with another password is answered
\* 401, one for an active user 409, one for an unknown email 401, and each
\* leaves the committed state as it is.  The same is said of the steps: a soft
\* delete by an administrator or by the user leaves a user that the restore
\* brings back together with the tokens that resolved before, and a restore
\* step changes the state exactly when it is answered 201.
C23_SelfServiceRestore ==
    /\ [](BetweenRequests =>
             /\ \A u \in db.users, password \in Passwords :
                    LET r == restore_user(db, u.email, password)
                        back == [u EXCEPT !.is_active = TRUE]
                    IN  IF ~u.is_active /\ verify_password(password, u.hashed_password)
                        THEN /\ r.status = 201
                             /\ r.db = [db EXCEPT !.users = (@ \ {u}) \cup {back}]
                             /\ \A token \in Tokens :
                                   IntOf(token.payload.sub) = u.id =>
                                       /\ get_current_user(db, token) = credentials_exception
                                       /\ get_current_user(r.db, token)
                                              = IF jwt_decode_ok(token) THEN Ok(back)
                                                ELSE credentials_exception
                        ELSE /\ r.status = IF verify_password(password, u.hashed_password)
                                           THEN 409 ELSE 401
                             /\ r.db = db
             /\ \A email \in Emails, password \in Passwords :
                    (\A u \in db.users : u.email # email) =>
                        /\ restore_user(db, email, password).status = 401
                        /\ restore_user(db, email, password).db = db)
    /\ [][(resp'.op \in {"soft_delete_user", "delete_me"} /\ resp'.status = 200) =>
             \E u \in db.users :
                 /\ u.is_active
                 /\ [u EXCEPT !.is_active = FALSE] \in db'.users
                 /\ LET r == restore_user(db', u.email, PasswordOf(u)) IN
                    /\ r.status = 201
                    /\ \A token \in Tokens :
                          get_current_user(db, token) = Ok(u) =>
                              /\ get_current_user(db', token) = credentials_exception
                              /\ get_current_user(r.db, token) = Ok(u)]_vars
    /\ [][resp'.op = "restore_user" =>
             IF resp'.status = 201
             THEN \E u \in db.users :
                      /\ u.email = resp'.arg.email
                      /\ ~u.is_active
                      /\ resp'.token = NoToken
                      /\ db' = [db EXCEPT !.users = (@ \ {u}) \cup {[u EXCEPT !.is_active = TRUE]}]
                      /\ get_current_user(db', create_access_token(u.id))
                             = Ok([u EXCEPT !.is_active = TRUE])
             ELSE resp'.status \in {401, 409} /\ db' = db]_vars

\* The bootstrap's user, whom only a soft delete can have made inactive, has
\* been restored without a token, and the user's token resolves again.
C23_Witness ==
    /\ resp.op = "restore_user"
    /\ resp.status = 201
    /\ resp.token = NoToken
    /\ resp.arg.email = "user@user.com"
    /\ writes = 1
    /\ \E u \in db.users :
          /\ u.email = "user@user.com"
          /\ get_current_user(db, create_access_token(u.id)) = Ok(u)

\* C24 (logout does not revoke): a logout step, answered 200 or not, leaves
\* the committed state and the request in flight as they are, and the token it
\* was made with resolves after it as before; in every committed state a
\* logout with any token would change nothing; and over every step of the
\* program a token that resolved to a user resolves to the same user after the
\* step as long as that user's row is still there and active, whatever
\* logouts were made before, so only expiry (an expired token resolves in no
\* state), deactivation and deletion end it.
C24_LogoutDoesNotRevoke ==
    /\ [][resp'.op = "logout" =>
             /\ db' = db
             /\ tx' = tx
             /\ writes' = writes
             /\ get_current_user(db', resp'.token) = get_current_user(db, resp'.token)
             /\ resp'.status = get_current_user(db, resp'.token).status]_vars
    /\ [](BetweenRequests =>
             \A token \in Tokens :
                 /\ logout(db, token).db = db
                 /\ get_current_user(db, token).status = 200 =>
                        /\ logout(db, token).status = 200
                        /\ get_current_user(logout(db, token).db, token)
                               = get_current_user(db, token)
                 /\ ~jwt_decode_ok(token) => get_current_user(db, token).status = 401)
    /\ [][\A token \in Tokens, u \in db.users :
              get_current_user(db, token) = Ok(u) =>
                  \A after \in db'.users :
                      (after.id = u.id /\ after.is_active) =>
                          get_current_user(db', token) = Ok(after)]_vars

\* A user's logout was answered 200 and the token it was made with still
\* resolves to that user.
C24_Witness ==
    /\ resp.op = "logout"
    /\ resp.status = 200
    /\ \E u \in db.users :
          /\ resp.token = create_access_token(u.id)
          /\ get_current_user(db, resp.token) = Ok(u)
          /\ get_me(db, resp.token).status = 200

====
